---- MODULE Spec2Model ----
(***************************************************************************)
(* A model of the Neotron BMC firmware (neotron-bmc-pico/src/main.rs):     *)
(* the register command processor (process_command), the dispatch loop     *)
(* (idle), the interrupt and timer tasks that feed its event queue, and    *)
(* the DC power state machine.                                             *)
(*                                                                         *)
(* Option<T> is modelled as a sequence: <<>> is None, <<x>> is Some(x).    *)
(* Arrays and slices are 1-based sequences: scratch[0] of the source is    *)
(* scratch[1] here.                                                        *)
(***************************************************************************)
EXTENDS Integers, Sequences, FiniteSets, TLC

(***************************************************************************)
(* Program constants                                                       *)
(***************************************************************************)
\* static VERSION: [u8; 32] / RegisterState::firmware_version: [u8; 32]
VERSION_LEN == 32
\* RegisterState::scratch: [u8; 16]
SCRATCH_LEN == 16
\* heapless::Deque<u8, 16>
KB_FIFO_LEN == 16
\* Queue<Message, 8>; a heapless spsc queue of size N holds N - 1 items
QUEUE_N == 8
\* ctx.shared.spi.lock(|s| s.start(4)): the length of a Request frame
REQUEST_LEN == 4

QueueCapacity == QUEUE_N - 1

(***************************************************************************)
(* Bounds of the model                                                     *)
(***************************************************************************)
\* keyboard bytes the environment delivers in one behaviour of SpecCmd
MaxKbBytes == 3

Min(a, b) == IF a < b THEN a ELSE b

None == <<>>
Some(x) == <<x>>

(***************************************************************************)
(* neotron_bmc_protocol: requests and responses                            *)
(***************************************************************************)
RequestTypes ==
    {"Read", "ReadAlt", "ShortWrite", "ShortWriteAlt", "LongWrite", "LongWriteAlt"}

\* RequestType::flatten: the Alt variants exist only to make a retry differ
\* from a new request; they are served as their base type.
flatten(t) ==
    CASE t \in {"Read", "ReadAlt"} -> "Read"
      [] t \in {"ShortWrite", "ShortWriteAlt"} -> "ShortWrite"
      [] OTHER -> "LongWrite"

\* Register ids of neotron_bmc_commands::Command that process_command serves.
REG_PROTOCOL_VERSION == 0
REG_FIRMWARE_VERSION == 1
REG_PS2_KB_BUFFER == 64
REG_SPEAKER_DURATION == 112
REG_SPEAKER_PERIOD_HIGH == 113
REG_SPEAKER_PERIOD_LOW == 114
REG_SPEAKER_DUTY_CYCLE == 115
\* an id no Command has
REG_UNKNOWN == 255

\* Command::try_from(req.register): <<>> is Err.
CommandTryFrom(id) ==
    CASE id = REG_PROTOCOL_VERSION -> Some("ProtocolVersion")
      [] id = REG_FIRMWARE_VERSION -> Some("FirmwareVersion")
      [] id = REG_PS2_KB_BUFFER -> Some("Ps2KbBuffer")
      [] id = REG_SPEAKER_DURATION -> Some("SpeakerDuration")
      [] id = REG_SPEAKER_PERIOD_HIGH -> Some("SpeakerPeriodHigh")
      [] id = REG_SPEAKER_PERIOD_LOW -> Some("SpeakerPeriodLow")
      [] id = REG_SPEAKER_DUTY_CYCLE -> Some("SpeakerDutyCycle")
      [] OTHER -> None

Request(t, reg, d) == [request_type |-> t, register |-> reg, length_or_data |-> d]

\* proto::Response::new_ok_with_data / new_without_data
new_ok_with_data(bytes) == [result |-> "Ok", data |-> bytes]
new_without_data(result) == [result |-> result, data |-> <<>>]

(***************************************************************************)
(* neotron_bmc_pico::speaker::RegisterState                                *)
(***************************************************************************)
speaker_set_duration(sp, d) == [sp EXCEPT !.duration = d, !.needs_update = TRUE]
speaker_set_period_high(sp, v) == [sp EXCEPT !.period_high = v]
speaker_set_period_low(sp, v) == [sp EXCEPT !.period_low = v]
speaker_set_duty_cycle(sp, v) == [sp EXCEPT !.duty_cycle = v]
speaker_set_needs_update(sp, b) == [sp EXCEPT !.needs_update = b]

(***************************************************************************)
(* process_command (main.rs 808-930)                                       *)
(***************************************************************************)
\* a process_command that never takes a request for a retry
IsRetry_Never(req, rs) == FALSE

\* a retry test that compares the requests after flattening their types
IsRetry_IgnoresAlt(req, rs) ==
    /\ rs.last_req # None
    /\ flatten(rs.last_req[1].request_type) = flatten(req.request_type)
    /\ rs.last_req[1].register = req.register
    /\ rs.last_req[1].length_or_data = req.length_or_data

\* if register_state.last_req.as_ref() == Some(&req)
IsRetry(req, rs) == rs.last_req = Some(req)

\* the duplicate path: re-send scratch[0..length], change nothing
RetryResult(req, rs) ==
    [state |-> rs,
     rsp |-> new_ok_with_data(SubSeq(rs.scratch, 1, req.length_or_data))]

ReadProtocolVersion(req, rs) ==
    [state |-> rs,
     rsp |-> IF req.length_or_data = 3
             THEN new_ok_with_data(<<0, 1, 1>>)
             ELSE new_without_data("BadLength")]

\* a length check that refuses the read of the whole version
ReadFirmwareVersion_StrictLimit(req, rs) ==
    [state |-> rs,
     rsp |-> IF req.length_or_data < Len(rs.firmware_version)
             THEN new_ok_with_data(SubSeq(rs.firmware_version, 1, req.length_or_data))
             ELSE new_without_data("BadLength")]

ReadFirmwareVersion(req, rs) ==
    [state |-> rs,
     rsp |-> IF req.length_or_data <= Len(rs.firmware_version)
             THEN new_ok_with_data(SubSeq(rs.firmware_version, 1, req.length_or_data))
             ELSE new_without_data("BadLength")]

\* a drain that counts the FIFO after it has popped the bytes
DrainToScratch_CountAfter(fifo) ==
    [i \in 1..SCRATCH_LEN |->
        IF i = 1 THEN IF Len(fifo) > SCRATCH_LEN - 1
                      THEN Len(fifo) - (SCRATCH_LEN - 1) ELSE 0
        ELSE IF i - 1 <= Len(fifo) THEN fifo[i - 1] ELSE 0]

\* scratch[0] = FIFO length; every slot of scratch[1..] takes pop_front() or 0
DrainToScratch(fifo) ==
    [i \in 1..SCRATCH_LEN |->
        IF i = 1 THEN Len(fifo) % 256
        ELSE IF i - 1 <= Len(fifo) THEN fifo[i - 1] ELSE 0]

\* what the pop_front() loop over scratch[1..] leaves in the FIFO
DrainRest(fifo) ==
    SubSeq(fifo, Min(Len(fifo), SCRATCH_LEN - 1) + 1, Len(fifo))

ReadPs2KbBuffer(req, rs) ==
    LET length == req.length_or_data IN
    IF length > 0 /\ length <= Len(rs.scratch)
    THEN LET scratch == DrainToScratch(rs.ps2_kb_bytes) IN
         [state |-> [rs EXCEPT !.scratch = scratch,
                               !.ps2_kb_bytes = DrainRest(rs.ps2_kb_bytes),
                               !.last_req = Some(req)],
          rsp |-> new_ok_with_data(SubSeq(scratch, 1, length))]
    ELSE [state |-> rs, rsp |-> new_without_data("BadLength")]

ReadSpeakerDuration(req, rs) ==
    [state |-> rs,
     rsp |-> new_ok_with_data(<<(rs.speaker.duration \div 10) % 256>>)]

WriteSpeakerDuration(req, rs) ==
    [state |-> [rs EXCEPT !.speaker =
                    speaker_set_duration(@, (req.length_or_data * 10) % 65536)],
     rsp |-> new_without_data("Ok")]

ReadSpeakerPeriodHigh(req, rs) ==
    [state |-> rs, rsp |-> new_ok_with_data(<<rs.speaker.period_high>>)]

\* the SpeakerPeriodHigh write arm calls set_period_low (main.rs 895)
WriteSpeakerPeriodHigh(req, rs) ==
    [state |-> [rs EXCEPT !.speaker = speaker_set_period_low(@, req.length_or_data)],
     rsp |-> new_without_data("Ok")]

ReadSpeakerPeriodLow(req, rs) ==
    [state |-> rs, rsp |-> new_ok_with_data(<<rs.speaker.period_low>>)]

\* the SpeakerPeriodLow write arm calls set_period_high (main.rs 905)
WriteSpeakerPeriodLow(req, rs) ==
    [state |-> [rs EXCEPT !.speaker = speaker_set_period_high(@, req.length_or_data)],
     rsp |-> new_without_data("Ok")]

ReadSpeakerDutyCycle(req, rs) ==
    [state |-> rs, rsp |-> new_ok_with_data(<<rs.speaker.duty_cycle>>)]

WriteSpeakerDutyCycle(req, rs) ==
    [state |-> [rs EXCEPT !.speaker = speaker_set_duty_cycle(@, req.length_or_data)],
     rsp |-> new_without_data("Ok")]

\* a default arm that drops the FIFO bytes the host has not read
UnsupportedResult_FlushesFifo(req, rs) ==
    [state |-> [rs EXCEPT !.ps2_kb_bytes = <<>>],
     rsp |-> new_without_data("BadRegister")]

\* the default arm
UnsupportedResult(req, rs) ==
    [state |-> rs, rsp |-> new_without_data("BadRegister")]

\* match (req.request_type.flatten(), Command::try_from(req.register))
MatchCommand(req, rs) ==
    LET t == flatten(req.request_type)
        c == CommandTryFrom(req.register)
    IN  CASE t = "Read" /\ c = Some("ProtocolVersion") -> ReadProtocolVersion(req, rs)
          [] t = "Read" /\ c = Some("FirmwareVersion") -> ReadFirmwareVersion(req, rs)
          [] t = "Read" /\ c = Some("Ps2KbBuffer") -> ReadPs2KbBuffer(req, rs)
          [] t = "Read" /\ c = Some("SpeakerDuration") -> ReadSpeakerDuration(req, rs)
          [] t = "ShortWrite" /\ c = Some("SpeakerDuration") -> WriteSpeakerDuration(req, rs)
          [] t = "Read" /\ c = Some("SpeakerPeriodHigh") -> ReadSpeakerPeriodHigh(req, rs)
          [] t = "ShortWrite" /\ c = Some("SpeakerPeriodHigh") -> WriteSpeakerPeriodHigh(req, rs)
          [] t = "Read" /\ c = Some("SpeakerPeriodLow") -> ReadSpeakerPeriodLow(req, rs)
          [] t = "ShortWrite" /\ c = Some("SpeakerPeriodLow") -> WriteSpeakerPeriodLow(req, rs)
          [] t = "Read" /\ c = Some("SpeakerDutyCycle") -> ReadSpeakerDutyCycle(req, rs)
          [] t = "ShortWrite" /\ c = Some("SpeakerDutyCycle") -> WriteSpeakerDutyCycle(req, rs)
          [] OTHER -> UnsupportedResult(req, rs)

\* a process_command that keeps the cached request when another one arrives
ProcessCommand_KeepsCache(req, rs) ==
    IF IsRetry(req, rs)
    THEN RetryResult(req, rs)
    ELSE MatchCommand(req, rs)

\* process_command: the new register state and the response handed to
\* rsp_handler (exactly one response per call)
ProcessCommand(req, rs) ==
    IF IsRetry(req, rs)
    THEN RetryResult(req, rs)
    ELSE MatchCommand(req, [rs EXCEPT !.last_req = None])

(***************************************************************************)
(* State                                                                   *)
(***************************************************************************)
VARIABLES
    register_state,           \* idle's RegisterState
    spi,                      \* the SpiPeripheral transport
    state_dc_power_enabled,   \* DcPowerState
    pin_sys_reset,            \* "low" (host in reset) or "high"
    pin_dc_on,                \* "low" (5V rail off) or "high"
    pin_irq,                  \* host-service line, "low" is active
    irq_masked,               \* idle's local irq_masked
    led,                      \* [pin, led_state] of the power LED
    msg_q,                    \* the Message queue, oldest first
    tasks,                    \* timer-scheduled task instances that are pending
    speaker_task_handle,      \* idle's Option<SpawnHandle>: TRUE is Some
    speaker_hw,               \* speaker::Hardware: TRUE while the PWM is enabled
    debounce,                 \* the three debouncers of button_poll
    kb_decoder,               \* Ps2Decoder: the bits collected so far
    lines,                    \* input lines as the environment drives them
    budget,                   \* what the environment may still do
    halted,                   \* TRUE once the firmware has panicked
    handled,                  \* the Message idle dequeued in its last iteration
    discarded,                \* Messages a producer failed to enqueue and dropped
    power_on_press,           \* which press of the power button powered the host on
    rsp                       \* the Response handed out for the last request, if any

vars == <<register_state, spi, state_dc_power_enabled, pin_sys_reset, pin_dc_on,
          pin_irq, irq_masked, led, msg_q, tasks, speaker_task_handle, speaker_hw,
          debounce, kb_decoder, lines, budget, halted, handled, discarded,
          power_on_press, rsp>>

Msg(kind, arg) == [kind |-> kind, arg |-> arg]

\* the firmware version the build embeds: 32 bytes, here 1..32
VersionBytes == [i \in 1..VERSION_LEN |-> i]

\* speaker::RegisterState::default()
SpeakerDefault ==
    [duration |-> 0, period_high |-> 0, period_low |-> 0, duty_cycle |-> 0,
     needs_update |-> FALSE]

\* RegisterState { firmware_version: VERSION, ..Default::default() }
RegisterStateInit ==
    [firmware_version |-> VersionBytes,
     ps2_kb_bytes |-> <<>>,
     scratch |-> [i \in 1..SCRATCH_LEN |-> 0],
     last_req |-> None,
     speaker |-> SpeakerDefault]

(***************************************************************************)
(* debouncr::Debouncer<_, RepeatN>                                         *)
(*                                                                         *)
(* The debouncer is an N-bit shift register of samples; update() reports   *)
(* Rising when the register becomes all ones and Falling when it becomes   *)
(* all zeros.  Only "all ones" and "all zeros" are ever observed, so the   *)
(* register is kept as its newest sample and the length of the run of      *)
(* equal samples that ends in it, capped at N: the register is all ones    *)
(* exactly when the newest sample is 1 and the run is N long.              *)
(***************************************************************************)
\* debouncr::debounce_2 (press_button_power_short, press_button_reset_short)
SHORT_DEPTH == 2
\* debouncr::debounce_16 (press_button_power_long)
LONG_DEPTH == 16

\* debounce_N(false): all zeros
DebounceInit(n) == [bit |-> FALSE, run |-> n]

AllOnes(d, n) == d.bit /\ d.run = n
AllZeros(d, n) == ~d.bit /\ d.run = n

DebounceShift(d, pressed, n) ==
    IF pressed = d.bit
    THEN [d EXCEPT !.run = Min(d.run + 1, n)]
    ELSE [bit |-> pressed, run |-> 1]

\* a debouncer that reports the level and not the edge
DebounceUpdate_Level(d, pressed, n) ==
    LET next == DebounceShift(d, pressed, n) IN
    [state |-> next,
     edge |-> IF AllOnes(next, n) THEN "Rising"
              ELSE IF AllZeros(next, n) THEN "Falling"
              ELSE "None"]

\* Debouncer::update: the new state and the edge, if any
DebounceUpdate(d, pressed, n) ==
    LET next == DebounceShift(d, pressed, n) IN
    [state |-> next,
     edge |-> IF AllOnes(next, n) /\ ~AllOnes(d, n) THEN "Rising"
              ELSE IF AllZeros(next, n) /\ ~AllZeros(d, n) THEN "Falling"
              ELSE "None"]

(***************************************************************************)
(* neotron_bmc_pico::ps2::Ps2Decoder                                       *)
(***************************************************************************)
\* bits of a PS/2 word: start, 8 data bits, parity, stop
PS2_WORD_BITS == 11

RECURSIVE BitsToWord(_)
\* the u16 the decoder collects: the first bit received is bit 0
BitsToWord(bits) ==
    IF bits = <<>> THEN 0
    ELSE (IF Head(bits) THEN 1 ELSE 0) + 2 * BitsToWord(Tail(bits))

WordBit(word, i) == (word \div (2 ^ i)) % 2 = 1

\* Ps2Decoder::add_bit: Some(word) after the 11th bit, and the decoder restarts
add_bit(dec, bit) ==
    LET bits == Append(dec, bit) IN
    IF Len(bits) = PS2_WORD_BITS
    THEN [dec |-> <<>>, word |-> Some(BitsToWord(bits))]
    ELSE [dec |-> bits, word |-> None]

\* Ps2Decoder::check_word: start bit 0, stop bit 1, odd parity over the data
check_word(word) ==
    LET data == (word \div 2) % 256
        ones == Cardinality({i \in 0..7 : WordBit(data, i)})
    IN  IF WordBit(word, 0) \/ ~WordBit(word, 10) THEN None
        ELSE IF (ones % 2 = 0) # WordBit(word, 9) THEN None
        ELSE Some(data)

(***************************************************************************)
(* The environment's inputs                                                *)
(***************************************************************************)
\* the bits a keyboard clocks out for one byte, parity right or wrong
KbFrame(byte, parity_ok) ==
    LET ones == Cardinality({i \in 0..7 : WordBit(byte, i)})
        odd == (ones % 2 = 0)
    IN  <<FALSE>> \o [i \in 1..8 |-> WordBit(byte, i - 1)]
        \o <<IF parity_ok THEN odd ELSE ~odd>> \o <<TRUE>>

\* the frames the keyboard sends
KbFrames == {KbFrame(28, TRUE), KbFrame(240, TRUE), KbFrame(28, FALSE)}

\* the bytes the UART receives
UartBytes == {85}

\* the Request frames the host sends to the running system: a request and
\* whether the integrity code that came with it matches
SpiFrames ==
    {[req |-> Request("Read", REG_PS2_KB_BUFFER, 2), crc_ok |-> TRUE],
     [req |-> Request("Read", REG_PS2_KB_BUFFER, 2), crc_ok |-> FALSE],
     [req |-> Request("Read", REG_FIRMWARE_VERSION, 33), crc_ok |-> TRUE],
     [req |-> Request("ShortWrite", REG_FIRMWARE_VERSION, 1), crc_ok |-> TRUE],
     [req |-> Request("Read", REG_UNKNOWN, 1), crc_ok |-> TRUE],
     [req |-> Request("ShortWrite", REG_SPEAKER_DURATION, 5), crc_ok |-> TRUE]}

\* the frames of a host that only writes the speaker duration: a tone, no tone
SpeakerFrames ==
    {[req |-> Request("ShortWrite", REG_SPEAKER_DURATION, d), crc_ok |-> TRUE] :
        d \in {5, 0}}

(***************************************************************************)
(* neotron_bmc_pico::spi::SpiPeripheral                                    *)
(***************************************************************************)
SpiInit == [mode |-> "Disabled", rx_count |-> 0, received |-> None, tx |-> None]

\* SpiPeripheral::reset
spi_reset(s) == SpiInit
\* SpiPeripheral::start(n): armed for a first phase of n bytes
spi_start(s) == [s EXCEPT !.mode = "Armed", !.rx_count = 0]
\* SpiPeripheral::stop
spi_stop(s) == [s EXCEPT !.mode = "Disabled", !.rx_count = 0]
\* SpiPeripheral::set_transmit_sendable
spi_set_transmit_sendable(s, r) == [s EXCEPT !.tx = Some(r)]
\* SpiPeripheral::get_received: the last complete frame, exactly once
spi_get_received(s) == [spi |-> [s EXCEPT !.received = None], frame |-> s.received]
\* SpiPeripheral::handle_isr: one byte in; TRUE when the frame is complete
spi_handle_isr(s, frame) ==
    IF s.mode = "Armed" /\ s.rx_count < REQUEST_LEN
    THEN IF s.rx_count + 1 = REQUEST_LEN
         THEN [spi |-> [s EXCEPT !.rx_count = REQUEST_LEN, !.received = Some(frame)],
               has_message |-> TRUE]
         ELSE [spi |-> [s EXCEPT !.rx_count = @ + 1], has_message |-> FALSE]
    ELSE [spi |-> s, has_message |-> FALSE]

\* proto::Request::from_bytes_with_crc on a 4-byte frame: <<>> is Err
from_bytes_with_crc(frame) == IF frame.crc_ok THEN Some(frame.req) ELSE None

(***************************************************************************)
(* The Message queue (heapless::spsc)                                      *)
(***************************************************************************)
QueueFull(q) == Len(q) >= QueueCapacity

\* an enqueue that puts the newest Message where the consumer takes the next
EnqueueAll_AtFront(q, msgs) ==
    LET room == Min(QueueCapacity - Len(q), Len(msgs)) IN
    [q |-> SubSeq(msgs, 1, room) \o q,
     refused |-> {msgs[i].kind : i \in (room + 1)..Len(msgs)}]

\* Producer::enqueue of each of msgs in turn: those that fit, those refused
EnqueueAll(q, msgs) ==
    LET room == Min(QueueCapacity - Len(q), Len(msgs)) IN
    [q |-> q \o SubSeq(msgs, 1, room),
     refused |-> {msgs[i].kind : i \in (room + 1)..Len(msgs)}]

(***************************************************************************)
(* The tasks idle spawns.  Software tasks run at priority 1 and so run to  *)
(* completion inside the spawn call of idle (priority 0).  A task has one  *)
(* spawn slot: spawn and spawn_after fail while an instance is pending.    *)
(* c is the state idle and these tasks work on:                            *)
(*   [rs, spi, dc, reset, dc_on, masked, led, tasks, handle, spk, halted,  *)
(*    rsp]                                                                 *)
(***************************************************************************)
Panic(c) == [c EXCEPT !.halted = TRUE]

\* speaker_init_tune: set_note, then speaker_pwm_stop::spawn_after(100 ms).unwrap()
speaker_init_tune(c) ==
    IF c.tasks.speaker_pwm_stop # "none"
    THEN Panic(c)
    ELSE [c EXCEPT !.tasks.speaker_pwm_stop = "tune"]

\* the body of led_power_blink
led_power_blink(c) ==
    IF c.dc = "Off"
    THEN [c EXCEPT !.led = [pin |-> IF c.led.led_state THEN "low" ELSE "high",
                            led_state |-> ~c.led.led_state],
                   !.tasks.led_power_blink = TRUE]
    ELSE [c EXCEPT !.led.pin = "high", !.tasks.led_power_blink = FALSE]

\* led_power_blink::spawn().unwrap()
SpawnLedPowerBlink(c) ==
    IF c.tasks.led_power_blink THEN Panic(c) ELSE led_power_blink(c)

\* an arm that asserts reset and schedules no exit_reset
SpawnExitReset_Never(c) == c

\* let _ = exit_reset::spawn_after(RESET_DURATION_MS.millis())
SpawnExitReset(c) == [c EXCEPT !.tasks.exit_reset = TRUE]

(***************************************************************************)
(* idle: the arms of match ctx.shared.msg_q_out.dequeue()                  *)
(***************************************************************************)
\* an arm that makes room for the new byte by dropping the oldest
OnPs2Data0_DropsOldest(word, c) ==
    LET byte == check_word(word) IN
    IF byte = None THEN c
    ELSE IF Len(c.rs.ps2_kb_bytes) < KB_FIFO_LEN
    THEN [c EXCEPT !.rs.ps2_kb_bytes = Append(@, byte[1])]
    ELSE [c EXCEPT !.rs.ps2_kb_bytes = Append(Tail(@), byte[1])]

OnPs2Data0(word, c) ==
    LET byte == check_word(word) IN
    IF byte # None /\ Len(c.rs.ps2_kb_bytes) < KB_FIFO_LEN
    THEN [c EXCEPT !.rs.ps2_kb_bytes = Append(@, byte[1])]
    ELSE c

\* a long press that powers off whenever the host is powered, Starting included
OnPowerButtonLongPress_AnyPowered(c) ==
    IF c.dc # "Off"
    THEN SpawnLedPowerBlink(
            [c EXCEPT !.dc = "Off", !.spi = spi_reset(@), !.reset = "low",
                      !.dc_on = "low", !.masked = TRUE])
    ELSE c

\* a power-off that leaves the bus transport as it is
OnPowerButtonLongPress_KeepsBus(c) ==
    IF c.dc = "On"
    THEN SpawnLedPowerBlink(
            [c EXCEPT !.dc = "Off", !.reset = "low", !.dc_on = "low",
                      !.masked = TRUE])
    ELSE c

\* a power-off that leaves the interrupt line unmasked
OnPowerButtonLongPress_StaysUnmasked(c) ==
    IF c.dc = "On"
    THEN SpawnLedPowerBlink(
            [c EXCEPT !.dc = "Off", !.spi = spi_reset(@), !.reset = "low",
                      !.dc_on = "low"])
    ELSE c

OnPowerButtonLongPress(c) ==
    IF c.dc = "On"
    THEN SpawnLedPowerBlink(
            [c EXCEPT !.dc = "Off", !.spi = spi_reset(@), !.reset = "low",
                      !.dc_on = "low", !.masked = TRUE])
    ELSE c

\* a power-on that forgets to unmask the interrupt line
OnPowerButtonShortPress_StaysMasked(c) ==
    IF c.dc = "Off"
    THEN LET c1 == speaker_init_tune([c EXCEPT !.spk = TRUE]) IN
         IF c1.halted THEN c1
         ELSE SpawnExitReset(
                [c1 EXCEPT !.dc = "Starting", !.reset = "low", !.dc_on = "high"])
    ELSE c

OnPowerButtonShortPress(c) ==
    IF c.dc = "Off"
    THEN LET c1 == speaker_init_tune([c EXCEPT !.spk = TRUE]) IN
         IF c1.halted THEN c1
         ELSE SpawnExitReset(
                [c1 EXCEPT !.dc = "Starting", !.reset = "low", !.dc_on = "high",
                           !.masked = FALSE])
    ELSE c

\* a release that does not look at the power state
OnPowerButtonRelease_Unchecked(c) == [c EXCEPT !.dc = "On"]

OnPowerButtonRelease(c) ==
    IF c.dc = "Starting" THEN [c EXCEPT !.dc = "On"] ELSE c

OnResetButtonShortPress(c) ==
    IF c.dc = "On"
    THEN LET c1 == speaker_init_tune([c EXCEPT !.reset = "low", !.spk = TRUE]) IN
         IF c1.halted THEN c1
         ELSE SpawnExitReset([c1 EXCEPT !.spi = spi_reset(@), !.reset = "low"])
    ELSE c

\* an arm that arms the transport whatever the power state
OnSpiEnable_Always(c) == [c EXCEPT !.spi = spi_start(@)]

OnSpiEnable(c) ==
    IF c.dc # "Off" THEN [c EXCEPT !.spi = spi_start(@)] ELSE c

OnSpiDisable(c) == [c EXCEPT !.spi = spi_stop(@)]

\* a frame whose integrity code does not match is logged and dropped
OnSpiRx(c) ==
    LET got == spi_get_received(c.spi)
        req == IF got.frame = None THEN None ELSE from_bytes_with_crc(got.frame[1])
    IN  IF req = None
        THEN [c EXCEPT !.spi = got.spi, !.rsp = None]
        ELSE LET r == ProcessCommand(req[1], c.rs) IN
             [c EXCEPT !.rs = r.state,
                       !.spi = spi_set_transmit_sendable(got.spi, r.rsp),
                       !.rsp = Some(r.rsp)]

\* an arm that silences the speaker and leaves the duration register alone
OnSpeakerDisable_KeepsDuration(c) == [c EXCEPT !.spk = FALSE]

OnSpeakerDisable(c) ==
    [c EXCEPT !.spk = FALSE, !.rs.speaker = speaker_set_duration(@, 0)]

HandleMessage(m, c) ==
    CASE m.kind = "Ps2Data0" -> OnPs2Data0(m.arg, c)
      [] m.kind = "PowerButtonLongPress" -> OnPowerButtonLongPress(c)
      [] m.kind = "PowerButtonShortPress" -> OnPowerButtonShortPress(c)
      [] m.kind = "PowerButtonRelease" -> OnPowerButtonRelease(c)
      [] m.kind = "ResetButtonShortPress" -> OnResetButtonShortPress(c)
      [] m.kind = "SpiEnable" -> OnSpiEnable(c)
      [] m.kind = "SpiDisable" -> OnSpiDisable(c)
      [] m.kind = "SpiRx" -> OnSpiRx(c)
      [] m.kind = "SpeakerDisable" -> OnSpeakerDisable(c)
      [] OTHER -> c    \* Ps2Data1, UartByte: logged only

\* an update that schedules the new stop action without cancelling the old one
SpeakerUpdate_NoCancel(c) ==
    IF ~c.rs.speaker.needs_update THEN c
    ELSE LET stop == c.tasks.speaker_pwm_stop
             keep_playing == c.rs.speaker.duration # 0
             c1 == [c EXCEPT !.rs.speaker = speaker_set_needs_update(@, FALSE),
                             !.handle = FALSE,
                             !.spk = keep_playing]
         IN  IF ~keep_playing THEN c1
             ELSE IF stop # "none" THEN Panic(c1)
             ELSE [c1 EXCEPT !.tasks.speaker_pwm_stop = "host", !.handle = TRUE]

\* the tail of the loop body: if register_state.speaker.needs_update() { .. }
\* speaker::Hardware::update cancels the pending stop task through the handle
\* (a handle whose task has fired cancels nothing) and keeps playing when the
\* duration is not zero.
SpeakerUpdate(c) ==
    IF ~c.rs.speaker.needs_update THEN c
    ELSE LET cancelled == c.handle /\ c.tasks.speaker_pwm_stop = "host"
             stop == IF cancelled THEN "none" ELSE c.tasks.speaker_pwm_stop
             keep_playing == c.rs.speaker.duration # 0
             c1 == [c EXCEPT !.rs.speaker = speaker_set_needs_update(@, FALSE),
                             !.handle = FALSE,
                             !.tasks.speaker_pwm_stop = stop,
                             !.spk = keep_playing]
         IN  IF ~keep_playing THEN c1
             ELSE IF stop # "none" THEN Panic(c1)
             ELSE [c1 EXCEPT !.tasks.speaker_pwm_stop = "host", !.handle = TRUE]

\* a line that looks at the FIFO only
IrqLevel_IgnoresMask(masked, rs) ==
    IF rs.ps2_kb_bytes # <<>> THEN "low" ELSE "high"

\* the level idle drives pin_irq to at the top of the loop body
IrqLevel(masked, rs) ==
    IF ~masked /\ rs.ps2_kb_bytes # <<>> THEN "low" ELSE "high"

(***************************************************************************)
(* Actions                                                                 *)
(***************************************************************************)
IdleCtx ==
    [rs |-> register_state, spi |-> spi, dc |-> state_dc_power_enabled,
     reset |-> pin_sys_reset, dc_on |-> pin_dc_on, masked |-> irq_masked,
     led |-> led, tasks |-> tasks, handle |-> speaker_task_handle,
     spk |-> speaker_hw, halted |-> halted, rsp |-> rsp]

\* one pass of the loop body of idle, the tasks it spawns included
IdleBody(c, q) ==
    LET c1 == IF q = <<>> THEN c ELSE HandleMessage(Head(q), c) IN
    IF c1.halted THEN c1 ELSE SpeakerUpdate(c1)

Idle ==
    /\ ~halted
    /\ LET c == IdleBody(IdleCtx, msg_q) IN
        /\ pin_irq' = IrqLevel(irq_masked, register_state)
        /\ msg_q' = IF msg_q = <<>> THEN msg_q ELSE Tail(msg_q)
        /\ handled' = IF msg_q = <<>> THEN handled
                      ELSE <<Head(msg_q).kind, state_dc_power_enabled>>
        /\ register_state' = c.rs
        /\ spi' = c.spi
        /\ state_dc_power_enabled' = c.dc
        /\ pin_sys_reset' = c.reset
        /\ pin_dc_on' = c.dc_on
        /\ irq_masked' = c.masked
        /\ led' = c.led
        /\ tasks' = c.tasks
        /\ speaker_task_handle' = c.handle
        /\ speaker_hw' = c.spk
        /\ halted' = c.halted
        /\ rsp' = c.rsp
        /\ power_on_press' = IF state_dc_power_enabled = "Off" /\ c.dc = "Starting"
                             THEN Head(msg_q).arg
                             ELSE power_on_press
    /\ UNCHANGED <<debounce, kb_decoder, lines, budget, discarded>>

\* The timer-driven tasks run once idle has emptied the queue: a pass of idle
\* takes microseconds, the shortest timer period is milliseconds. In a flood
\* scenario idle is held up and the tasks run whatever the queue holds.
CaughtUp == budget.flood \/ msg_q = <<>>

\* exti4_15_interrupt, EXTI15 pending: a falling edge of the keyboard clock.
\* The keyboard starts a frame of KbFrames or clocks out the next bit of the
\* frame it is sending.
Exti15 ==
    /\ ~halted
    /\ \E f \in (IF lines.kb_tx # <<>> THEN {lines.kb_tx}
                 ELSE IF budget.kb_frames > 0 THEN KbFrames ELSE {}) :
        LET r == add_bit(kb_decoder, Head(f)) IN
        /\ lines' = [lines EXCEPT !.kb_tx = Tail(f)]
        /\ budget' = IF lines.kb_tx # <<>> THEN budget
                     ELSE [budget EXCEPT !.kb_frames = @ - 1]
        /\ kb_decoder' = r.dec
        /\ IF r.word = None
           THEN UNCHANGED <<msg_q, halted>>
           ELSE IF QueueFull(msg_q)
                THEN halted' = TRUE /\ UNCHANGED msg_q
                ELSE msg_q' = Append(msg_q, Msg("Ps2Data0", r.word[1]))
                     /\ UNCHANGED halted
    /\ UNCHANGED <<register_state, spi, state_dc_power_enabled, pin_sys_reset,
                   pin_dc_on, pin_irq, irq_masked, led, tasks, speaker_task_handle,
                   speaker_hw, debounce, handled, discarded, rsp,
                   power_on_press>>

\* exti4_15_interrupt, EXTI4 pending: an edge of the SPI chip select
Exti4 ==
    /\ ~halted
    /\ lines.cs_low \/ budget.spi_txn > 0
    /\ lines' = [lines EXCEPT !.cs_low = ~@]
    /\ budget' = IF lines.cs_low THEN budget ELSE [budget EXCEPT !.spi_txn = @ - 1]
    /\ IF QueueFull(msg_q)
       THEN halted' = TRUE /\ UNCHANGED msg_q
       ELSE /\ msg_q' = Append(msg_q, Msg(IF lines.cs_low THEN "SpiDisable"
                                          ELSE "SpiEnable", 0))
            /\ UNCHANGED halted
    /\ UNCHANGED <<register_state, spi, state_dc_power_enabled, pin_sys_reset,
                   pin_dc_on, pin_irq, irq_masked, led, tasks, speaker_task_handle,
                   speaker_hw, debounce, kb_decoder, handled, discarded, rsp,
                   power_on_press>>

\* usart1_interrupt
Usart1Interrupt ==
    /\ ~halted
    /\ budget.uart > 0
    /\ \E b \in UartBytes :
        LET r == EnqueueAll(msg_q, <<Msg("UartByte", b)>>) IN
        /\ msg_q' = r.q
        /\ discarded' = discarded \cup r.refused
    /\ budget' = [budget EXCEPT !.uart = @ - 1]
    /\ UNCHANGED <<register_state, spi, state_dc_power_enabled, pin_sys_reset,
                   pin_dc_on, pin_irq, irq_masked, led, tasks, speaker_task_handle,
                   speaker_hw, debounce, kb_decoder, lines, halted, handled, rsp,
                   power_on_press>>

\* spi1_interrupt: the host clocks a byte of its request into the armed transport
Spi1Interrupt ==
    /\ ~halted
    /\ lines.cs_low
    /\ spi.mode = "Armed" /\ spi.rx_count < REQUEST_LEN
    /\ \E frame \in budget.frames :
        LET h == spi_handle_isr(spi, frame)
            r == EnqueueAll(msg_q, IF h.has_message THEN <<Msg("SpiRx", 0)>> ELSE <<>>)
        IN  /\ spi' = h.spi
            /\ msg_q' = r.q
            /\ discarded' = discarded \cup r.refused
    /\ UNCHANGED <<register_state, state_dc_power_enabled, pin_sys_reset, pin_dc_on,
                   pin_irq, irq_masked, led, tasks, speaker_task_handle, speaker_hw,
                   debounce, kb_decoder, lines, budget, halted, handled, rsp,
                   power_on_press>>

\* speaker_pwm_stop, when its timer expires
SpeakerPwmStop ==
    /\ ~halted
    /\ CaughtUp
    /\ tasks.speaker_pwm_stop # "none"
    /\ tasks' = [tasks EXCEPT !.speaker_pwm_stop = "none"]
    /\ LET r == EnqueueAll(msg_q, <<Msg("SpeakerDisable", 0)>>) IN
        /\ msg_q' = r.q
        /\ discarded' = discarded \cup r.refused
    /\ UNCHANGED <<register_state, spi, state_dc_power_enabled, pin_sys_reset,
                   pin_dc_on, pin_irq, irq_masked, led, speaker_task_handle,
                   speaker_hw, debounce, kb_decoder, lines, budget, halted, handled,
                   rsp, power_on_press>>

\* led_power_blink, when its timer expires (or right after init)
LedPowerBlink ==
    /\ ~halted
    /\ CaughtUp
    /\ tasks.led_power_blink
    /\ LET c == led_power_blink(IdleCtx) IN
        /\ led' = c.led
        /\ tasks' = c.tasks
    /\ UNCHANGED <<register_state, spi, state_dc_power_enabled, pin_sys_reset,
                   pin_dc_on, pin_irq, irq_masked, msg_q, speaker_task_handle,
                   speaker_hw, debounce, kb_decoder, lines, budget, halted, handled,
                   discarded, rsp, power_on_press>>

\* an exit_reset that raises the reset line whatever the power state
exit_reset_Unconditional(dc, reset) == "high"

\* exit_reset: the level of the reset line when the task returns
exit_reset(dc, reset) == IF dc # "Off" THEN "high" ELSE reset

\* exit_reset, when its timer expires
ExitReset ==
    /\ ~halted
    /\ CaughtUp
    /\ tasks.exit_reset
    /\ tasks' = [tasks EXCEPT !.exit_reset = FALSE]
    /\ pin_sys_reset' = exit_reset(state_dc_power_enabled, pin_sys_reset)
    /\ UNCHANGED <<register_state, spi, state_dc_power_enabled, pin_dc_on, pin_irq,
                   irq_masked, led, msg_q, speaker_task_handle, speaker_hw, debounce,
                   kb_decoder, lines, budget, halted, handled, discarded, rsp,
                   power_on_press>>

\* the Messages one run of button_poll enqueues, in the order it enqueues them.
\* The Messages of the source carry nothing; here a power button Message
\* carries press, the number of the press of the button it comes from.
ButtonMessages(pwr_short_edge, pwr_long_edge, rst_edge, press) ==
    (IF pwr_long_edge = "Rising" THEN <<Msg("PowerButtonLongPress", press)>> ELSE <<>>)
    \o (IF pwr_short_edge = "Rising" THEN <<Msg("PowerButtonShortPress", press)>>
        ELSE IF pwr_short_edge = "Falling" THEN <<Msg("PowerButtonRelease", press)>>
        ELSE <<>>)
    \o (IF rst_edge = "Rising" THEN <<Msg("ResetButtonShortPress", 0)>> ELSE <<>>)

\* the levels a button can show at this poll: as before, or changed while the
\* environment may still change it
Levels(level, toggles) == IF toggles > 0 THEN BOOLEAN ELSE {level}

\* The presses of the power button are numbered 1, 2, ..: a press begins when
\* a poll samples the button pressed after a poll that sampled it released.
\* While the button is released the number is that of the last press.
PressNumber(pwr) ==
    lines.presses + (IF pwr /\ ~lines.button_power THEN 1 ELSE 0)

\* the number of polls in a row, this one included, that sampled a button
\* pressed, counted up to one more than the debounce depth n
HeldSamples(held, pressed, n) == IF pressed THEN Min(held + 1, n + 1) ELSE 0

\* button_poll: samples both buttons, runs the debouncers, enqueues, re-arms
ButtonPoll ==
    /\ ~halted
    /\ CaughtUp
    /\ \E pwr \in Levels(lines.button_power, budget.pwr_toggles),
          rst \in Levels(lines.button_reset, budget.rst_toggles) :
        LET ps == DebounceUpdate(debounce.power_short, pwr, SHORT_DEPTH)
            pl == DebounceUpdate(debounce.power_long, pwr, LONG_DEPTH)
            rs == DebounceUpdate(debounce.reset_short, rst, SHORT_DEPTH)
            r == EnqueueAll(msg_q, ButtonMessages(ps.edge, pl.edge, rs.edge,
                                                  PressNumber(pwr)))
        IN  /\ debounce' = [power_short |-> ps.state, power_long |-> pl.state,
                            reset_short |-> rs.state]
            /\ lines' = [lines EXCEPT !.button_power = pwr, !.button_reset = rst,
                                      !.presses = PressNumber(pwr),
                                      !.power_held = HeldSamples(@, pwr, LONG_DEPTH),
                                      !.reset_held = HeldSamples(@, rst, SHORT_DEPTH)]
            /\ budget' = [budget EXCEPT
                            !.pwr_toggles = IF pwr = lines.button_power THEN @ ELSE @ - 1,
                            !.rst_toggles = IF rst = lines.button_reset THEN @ ELSE @ - 1]
            /\ msg_q' = r.q
            /\ discarded' = discarded \cup r.refused
    /\ UNCHANGED <<register_state, spi, state_dc_power_enabled, pin_sys_reset,
                   pin_dc_on, pin_irq, irq_masked, led, tasks, speaker_task_handle,
                   speaker_hw, kb_decoder, halted, handled, rsp,
                   power_on_press>>

Next ==
    \/ Idle
    \/ Exti15
    \/ Exti4
    \/ Usart1Interrupt
    \/ Spi1Interrupt
    \/ SpeakerPwmStop
    \/ LedPowerBlink
    \/ ExitReset
    \/ ButtonPoll

(***************************************************************************)
(* The state after init (main.rs 185-370) and the first lines of idle      *)
(***************************************************************************)
\* presses and releases of the power button the environment makes
MaxPowerToggles == 4
\* presses and releases of the reset button
MaxResetToggles == 2
\* chip-select assertions by the host
MaxSpiTransactions == 1
\* frames the keyboard sends
MaxKbFrames == 1
\* bytes the UART receives
MaxUartBytes == 1

InitSystem(b) ==
    /\ register_state = RegisterStateInit
    /\ spi = SpiInit
    /\ state_dc_power_enabled = "Off"
    /\ pin_sys_reset = "low"
    /\ pin_dc_on = "low"
    /\ pin_irq = "high"
    /\ irq_masked = TRUE
    /\ led = [pin |-> "low", led_state |-> FALSE]
    /\ msg_q = <<>>
    /\ tasks = [exit_reset |-> FALSE, led_power_blink |-> TRUE,
                speaker_pwm_stop |-> "none"]
    /\ speaker_task_handle = FALSE
    /\ speaker_hw = FALSE
    /\ debounce = [power_short |-> DebounceInit(SHORT_DEPTH),
                   power_long |-> DebounceInit(LONG_DEPTH),
                   reset_short |-> DebounceInit(SHORT_DEPTH)]
    /\ kb_decoder = <<>>
    /\ lines = [button_power |-> FALSE, button_reset |-> FALSE, cs_low |-> FALSE,
                kb_tx |-> <<>>, presses |-> 0, power_held |-> 0,
                reset_held |-> 0]
    /\ budget = b
    /\ halted = FALSE
    /\ handled = <<>>
    /\ discarded = {}
    /\ power_on_press = 0
    /\ rsp = None

\* The environment of one behaviour is one of eight scenarios; each bounds what
\* the buttons, the host, the keyboard and the UART do in it.
Budget(pwr, rst, txn, frames, bytes, flood) ==
    [pwr_toggles |-> pwr, rst_toggles |-> rst, spi_txn |-> txn,
     kb_frames |-> frames, uart |-> bytes, flood |-> flood, writes |-> 0,
     frames |-> SpiFrames]

\* the buttons alone, pressed and released at any poll
ScenarioButtons == Budget(MaxPowerToggles, MaxResetToggles, 0, 0, 0, FALSE)
\* one press and release of the power button, then the host on the bus
ScenarioHost == Budget(3, 0, MaxSpiTransactions, 0, 0, FALSE)
\* keyboard, UART and chip select while the host stays unpowered
ScenarioInputs == Budget(0, 0, MaxSpiTransactions, MaxKbFrames, MaxUartBytes, FALSE)
\* a burst of UART bytes that idle does not keep up with, then chip select
ScenarioFloodBus == Budget(0, 0, 1, 0, QUEUE_N, TRUE)
\* the same burst, then a press of the power button
ScenarioFloodButton == Budget(1, 0, 0, 0, QUEUE_N, TRUE)

\* the keyboard sends one frame while the power button takes the host on and off
ScenarioKeyboard == Budget(3, 0, 0, 1, 0, FALSE)

\* the host starts a tone and, in a second transaction, another one or none
ScenarioSpeaker ==
    [Budget(1, 0, 2, 0, 0, FALSE) EXCEPT !.frames = SpeakerFrames]

\* the host starts a tone while the power button takes it off and on again
ScenarioPowerCycle ==
    [Budget(5, 0, 1, 0, 0, FALSE) EXCEPT
        !.frames = {[req |-> Request("ShortWrite", REG_SPEAKER_DURATION, 5),
                     crc_ok |-> TRUE]}]

Scenarios ==
    {ScenarioButtons, ScenarioHost, ScenarioInputs, ScenarioFloodBus,
     ScenarioFloodButton, ScenarioKeyboard, ScenarioSpeaker, ScenarioPowerCycle}

Init == \E b \in Scenarios : InitSystem(b)

Spec == Init /\ [][Next]_vars

(***************************************************************************)
(* process_command on its own: requests applied to the register state,     *)
(* with keyboard bytes arriving in between as idle stores them.            *)
(***************************************************************************)
Registers ==
    {REG_PROTOCOL_VERSION, REG_FIRMWARE_VERSION, REG_PS2_KB_BUFFER,
     REG_SPEAKER_DURATION, REG_SPEAKER_PERIOD_HIGH, REG_SPEAKER_PERIOD_LOW,
     REG_SPEAKER_DUTY_CYCLE, REG_UNKNOWN}

SpeakerRegisters ==
    {REG_SPEAKER_DURATION, REG_SPEAKER_PERIOD_HIGH, REG_SPEAKER_PERIOD_LOW,
     REG_SPEAKER_DUTY_CYCLE}

\* the requests the host makes in SpecCmd: FIFO reads of both read types,
\* short, long and too long; reads that are no FIFO read; speaker writes;
\* two requests process_command does not serve
CmdRequests ==
    {Request(t, REG_PS2_KB_BUFFER, d) : t \in {"Read", "ReadAlt"}, d \in {1, 2, 16}}
    \cup {Request("Read", REG_PS2_KB_BUFFER, 17),
          Request("Read", REG_FIRMWARE_VERSION, 32),
          Request("Read", REG_SPEAKER_DURATION, 1),
          Request("ShortWrite", REG_FIRMWARE_VERSION, 1),
          Request("LongWrite", REG_SPEAKER_DURATION, 1)}
    \cup {Request("ShortWrite", reg, 5) : reg \in SpeakerRegisters}

IsSpeakerWrite(req) ==
    flatten(req.request_type) = "ShortWrite" /\ req.register \in SpeakerRegisters

\* the n-th byte the keyboard sends is n
CmdKbByte ==
    /\ budget.kb_frames > 0
    /\ LET byte == KB_FIFO_LEN + 2 - budget.kb_frames
           c == OnPs2Data0(BitsToWord(KbFrame(byte, TRUE)), IdleCtx)
       IN  register_state' = c.rs
    /\ budget' = [budget EXCEPT !.kb_frames = @ - 1]
    /\ UNCHANGED <<spi, state_dc_power_enabled, pin_sys_reset, pin_dc_on, pin_irq,
                   irq_masked, led, msg_q, tasks, speaker_task_handle, speaker_hw,
                   debounce, kb_decoder, lines, halted, handled, discarded, rsp,
                   power_on_press>>

CmdProcess ==
    /\ \E req \in CmdRequests :
        /\ IsSpeakerWrite(req) => budget.writes > 0
        /\ LET r == ProcessCommand(req, register_state) IN
            /\ register_state' = r.state
            /\ rsp' = Some(r.rsp)
        /\ budget' = IF IsSpeakerWrite(req) THEN [budget EXCEPT !.writes = @ - 1]
                     ELSE budget
    /\ UNCHANGED <<spi, state_dc_power_enabled, pin_sys_reset, pin_dc_on, pin_irq,
                   irq_masked, led, msg_q, tasks, speaker_task_handle, speaker_hw,
                   debounce, kb_decoder, lines, halted, handled, discarded,
                   power_on_press>>

NextCmd == CmdKbByte \/ CmdProcess

\* speaker register writes in one behaviour of SpecCmd
MaxSpeakerWrites == 2

CmdBudget(frames, writes) ==
    [Budget(0, 0, 0, frames, 0, FALSE) EXCEPT !.writes = writes]

\* the keyboard fills the FIFO and one byte more; no speaker writes
CmdScenarioKeyboard == CmdBudget(KB_FIFO_LEN + 1, 0)
\* speaker writes and a few keyboard bytes
CmdScenarioSpeaker == CmdBudget(MaxKbBytes, MaxSpeakerWrites)

InitCmd == \E b \in {CmdScenarioKeyboard, CmdScenarioSpeaker} : InitSystem(b)

SpecCmd == InitCmd /\ [][NextCmd]_vars

(***************************************************************************)
(* Properties of process_command, checked in every state of SpecCmd        *)
(***************************************************************************)
\* the values of the length-or-data byte the properties try: the ends of the
\* range and both sides of each length limit
DataSamples == {0, 1, 2, 15, 16, 17, 32, 33, 255}

SampleRequests ==
    {Request(t, reg, d) : t \in RequestTypes, reg \in Registers, d \in DataSamples}

\* C1: calling process_command twice in succession with the same request
\* gives two identical responses, and the second call leaves the keyboard
\* FIFO as the first call left it.
C1_RepeatedRequestIdempotent ==
    \A req \in SampleRequests :
        LET first == ProcessCommand(req, register_state)
            second == ProcessCommand(req, first.state)
        IN  /\ second.rsp = first.rsp
            /\ second.state.ps2_kb_bytes = first.state.ps2_kb_bytes

\* a FIFO read has been answered and cached while bytes remain in the FIFO,
\* so that a second drain would answer with other bytes
C1_Witness ==
    /\ register_state.last_req # None
    /\ register_state.ps2_kb_bytes # <<>>
    /\ rsp # None
    /\ rsp[1].result = "Ok"
    /\ Len(rsp[1].data) = 2
    /\ rsp[1].data[1] # 0

\* C2: writing a value to a speaker register with a ShortWrite and then
\* reading the register returns the value written.
C2_SpeakerWriteReadRoundTrip ==
    \A reg \in SpeakerRegisters, v \in 0..255 :
        LET written == ProcessCommand(Request("ShortWrite", reg, v), register_state)
            read == ProcessCommand(Request("Read", reg, 1), written.state)
        IN  read.rsp = new_ok_with_data(<<v>>)

\* C9: a Read of FirmwareVersion with length L returns Ok and the first L
\* bytes of the version when L <= 32 and BadLength without data when L > 32,
\* and no request changes the stored version.
C9_FirmwareVersionRead ==
    /\ \A t \in {"Read", "ReadAlt"}, L \in 0..255 :
        LET r == ProcessCommand(Request(t, REG_FIRMWARE_VERSION, L), register_state)
        IN  IF L <= VERSION_LEN
            THEN /\ r.rsp.result = "Ok"
                 /\ Len(r.rsp.data) = L
                 /\ \A i \in 1..L : r.rsp.data[i] = VersionBytes[i]
            ELSE /\ r.rsp.result = "BadLength"
                 /\ r.rsp.data = <<>>
    /\ \A req \in SampleRequests :
        ProcessCommand(req, register_state).state.firmware_version = VersionBytes
    /\ register_state.firmware_version = VersionBytes

\* the whole version has been read
C9_Witness ==
    /\ rsp = Some(new_ok_with_data(VersionBytes))
    /\ register_state.ps2_kb_bytes # <<>>

\* the (register, type) pairs process_command serves: reads of the seven
\* registers and short writes of the four speaker registers
Listed(t, reg) ==
    \/ /\ t \in {"Read", "ReadAlt"}
       /\ reg \in Registers \ {REG_UNKNOWN}
    \/ /\ t \in {"ShortWrite", "ShortWriteAlt"}
       /\ reg \in SpeakerRegisters

\* the seven registers and ids beside them that name no register served
SampleRegisters ==
    Registers \cup {2, 63, 65, 111, 116, 254}

\* C10: a request whose (register, type) pair is not served is answered
\* BadRegister without data and changes neither the keyboard FIFO nor a
\* speaker register.
C10_UnlistedIsBadRegister ==
    \A t \in RequestTypes, reg \in SampleRegisters, d \in {0, 1, 16, 255} :
        ~Listed(t, reg) =>
            LET r == ProcessCommand(Request(t, reg, d), register_state)
            IN  /\ r.rsp = new_without_data("BadRegister")
                /\ r.state.ps2_kb_bytes = register_state.ps2_kb_bytes
                /\ r.state.speaker = register_state.speaker

\* a request outside the table was answered while the FIFO held bytes and
\* the speaker registers held written values
C10_Witness ==
    /\ rsp = Some(new_without_data("BadRegister"))
    /\ register_state.ps2_kb_bytes # <<>>
    /\ register_state.speaker # SpeakerDefault

\* what a read of L bytes of the keyboard FIFO answers: the number of bytes
\* held, then the oldest bytes in arrival order, then zeros
FifoReadData(fifo, L) ==
    [i \in 1..L |->
        IF i = 1 THEN Len(fifo)
        ELSE IF i - 1 <= Len(fifo) THEN fifo[i - 1] ELSE 0]

\* the answer the Ps2KbBuffer read of length L must give in this state
FifoReadAnswered(req) ==
    LET L == req.length_or_data
        fifo == register_state.ps2_kb_bytes
        r == ProcessCommand(req, register_state)
    IN  IF L \in 1..SCRATCH_LEN
        THEN /\ r.rsp.result = "Ok"
             /\ r.rsp.data = FifoReadData(fifo, L)
        ELSE /\ r.rsp = new_without_data("BadLength")
             /\ r.state.ps2_kb_bytes = fifo

FifoReads ==
    {Request(t, REG_PS2_KB_BUFFER, L) : t \in {"Read", "ReadAlt"},
                                        L \in 0..(SCRATCH_LEN + 2) \cup {255}}

\* C11 (amended): a Read of Ps2KbBuffer that is not a repeat of the cached
\* last request answers, for a length L in 1..16, Ok with L bytes: the number
\* of bytes the FIFO held before the read, then the oldest FIFO bytes in
\* arrival order, zero-padded; for a length of 0 or above 16 it answers
\* BadLength and leaves the FIFO unchanged.
C11_FreshFifoRead ==
    \A req \in FifoReads :
        register_state.last_req # Some(req) => FifoReadAnswered(req)

\* C11 as stated: every Read of Ps2KbBuffer answers with the number of bytes
\* the FIFO holds and its oldest bytes, a repeat of the cached request too.
C11_EveryFifoRead == \A req \in FifoReads : FifoReadAnswered(req)

\* a read of 16 bytes has answered: two bytes held, both bytes, 13 zeros
C11_Witness ==
    /\ rsp # None
    /\ rsp[1].result = "Ok"
    /\ Len(rsp[1].data) = SCRATCH_LEN
    /\ rsp[1].data[1] = 2
    /\ rsp[1].data[2] # 0
    /\ rsp[1].data[3] # 0
    /\ rsp[1].data[4] = 0
    /\ register_state.last_req # None

\* the requests tried as the request that comes between two equal FIFO reads
OtherRequests ==
    {Request(t, reg, 2) : t \in {"Read", "ReadAlt", "ShortWrite", "LongWrite"},
                          reg \in {REG_PS2_KB_BUFFER, REG_FIRMWARE_VERSION,
                                   REG_SPEAKER_DURATION, REG_UNKNOWN}}
    \cup {Request("Read", REG_PS2_KB_BUFFER, L) : L \in {0, 1, 16, 17}}

\* C12: a request that differs from the cached last request clears the
\* cache: after FIFO read A and another request B, A again is a fresh read of
\* the FIFO as B left it, not a replay of the first answer.
C12_OtherRequestClearsCache ==
    /\ \A req \in OtherRequests :
        (register_state.last_req # None /\ register_state.last_req # Some(req))
            => ProcessCommand(req, register_state).state.last_req
                    # register_state.last_req
    /\ \A A \in {Request(t, REG_PS2_KB_BUFFER, L) : t \in {"Read", "ReadAlt"},
                                                    L \in {1, 2, SCRATCH_LEN}} :
       \A B \in OtherRequests \ {A} :
        LET afterA == ProcessCommand(A, register_state).state
            afterB == ProcessCommand(B, afterA).state
            again == ProcessCommand(A, afterB)
        IN  /\ afterB.last_req # Some(A)
            /\ again.rsp.data = FifoReadData(afterB.ps2_kb_bytes, A.length_or_data)

\* a FIFO read was cached and a request of another kind has cleared the cache
C12_Witness ==
    /\ rsp = Some(new_without_data("BadLength"))
    /\ register_state.last_req = None
    /\ register_state.scratch[1] # 0
    /\ register_state.ps2_kb_bytes # <<>>

(***************************************************************************)
(* Properties of the dispatch loop, checked on every step of Spec          *)
(***************************************************************************)
\* this step is a pass of idle that dequeues and handles a Message of the kind
IdleHandles(kind) ==
    /\ ~halted
    /\ msg_q # <<>>
    /\ Head(msg_q).kind = kind
    /\ msg_q' = Tail(msg_q)
    /\ handled' = <<kind, state_dc_power_enabled>>

\* C3: the power state starts at Off and changes only from Off to Starting
\* when PowerButtonShortPress is handled, from Starting to On when
\* PowerButtonRelease is handled and from On to Off when PowerButtonLongPress
\* is handled; every other step leaves it unchanged.
C3_PowerStateTransitions ==
    /\ state_dc_power_enabled = "Off"
    /\ [][state_dc_power_enabled' # state_dc_power_enabled =>
            \/ /\ state_dc_power_enabled = "Off"
               /\ IdleHandles("PowerButtonShortPress")
               /\ state_dc_power_enabled' = "Starting"
            \/ /\ state_dc_power_enabled = "Starting"
               /\ IdleHandles("PowerButtonRelease")
               /\ state_dc_power_enabled' = "On"
            \/ /\ state_dc_power_enabled = "On"
               /\ IdleHandles("PowerButtonLongPress")
               /\ state_dc_power_enabled' = "Off"]_vars

\* the host has been powered on, released and powered off again
C3_Witness ==
    /\ handled = <<"PowerButtonLongPress", "On">>
    /\ state_dc_power_enabled = "Off"
    /\ power_on_press = 1

\* C4: a press of the power button that begins in Off never powers the host
\* off again. The short press leaves the state Starting, the long press
\* handled in Starting changes nothing, the release leaves the state On, and
\* the long press that powers the host off never comes from the press that
\* powered it on.
C4_OnePressNeverPowersOff ==
    [][/\ (IdleHandles("PowerButtonShortPress") /\ state_dc_power_enabled = "Off"
           /\ ~halted')
            => state_dc_power_enabled' = "Starting"
       /\ (IdleHandles("PowerButtonLongPress") /\ state_dc_power_enabled = "Starting")
            => UNCHANGED <<register_state, spi, state_dc_power_enabled,
                           pin_sys_reset, pin_dc_on, irq_masked, led, tasks,
                           speaker_task_handle, speaker_hw, halted>>
       /\ (IdleHandles("PowerButtonRelease") /\ state_dc_power_enabled = "Starting")
            => state_dc_power_enabled' = "On"
       /\ (state_dc_power_enabled # "Off" /\ state_dc_power_enabled' = "Off")
            => Head(msg_q).arg # power_on_press]_vars

\* the power button is still held from the press that powered the host on,
\* and its long press has been handled in Starting
C4_Witness ==
    /\ handled = <<"PowerButtonLongPress", "Starting">>
    /\ state_dc_power_enabled = "Starting"
    /\ lines.button_power
    /\ lines.presses = power_on_press

C6_LongPressPowersOff ==
    [][(IdleHandles("PowerButtonLongPress") /\ state_dc_power_enabled = "On"
        /\ ~halted')
            => /\ state_dc_power_enabled' = "Off"
               /\ spi' = SpiInit
               /\ pin_sys_reset' = "low"
               /\ pin_dc_on' = "low"
               /\ irq_masked'
               /\ tasks'.led_power_blink
               /\ led'.led_state # led.led_state]_vars

\* a long press has just powered the host off after the host used the bus
C6_Witness ==
    /\ handled = <<"PowerButtonLongPress", "On">>
    /\ ~halted
    /\ state_dc_power_enabled = "Off"
    /\ tasks.led_power_blink
    /\ budget.spi_txn < MaxSpiTransactions
    /\ rsp # None

\* C7: no producer ever drops a Message it could not enqueue: an enqueue
\* into the full queue halts the firmware instead.
C7_NoSilentDiscard == discarded = {}

\* the lengths a read of the register may ask for
BadLengthRequested(req) ==
    /\ flatten(req.request_type) = "Read"
    /\ \/ req.register = REG_PROTOCOL_VERSION /\ req.length_or_data # 3
       \/ req.register = REG_FIRMWARE_VERSION /\ req.length_or_data > VERSION_LEN
       \/ /\ req.register = REG_PS2_KB_BUFFER
          /\ req.length_or_data \notin 1..SCRATCH_LEN

\* the frames the protocol has an error code for
ProtocolError(frame) ==
    \/ ~frame.crc_ok
    \/ ~Listed(frame.req.request_type, frame.req.register)
    \/ BadLengthRequested(frame.req)

\* C8: when idle handles the SpiRx of a received frame that is a protocol
\* error, it loads a Response with an error code into the transport and
\* does not halt.
C8_ProtocolErrorAnswered ==
    [][(IdleHandles("SpiRx") /\ spi.received # None
        /\ ProtocolError(spi.received[1]))
            => /\ ~halted'
               /\ rsp' # None
               /\ spi'.tx = rsp'
               /\ rsp'[1].result \in {"CrcFailure", "BadRegister", "BadLength"}]_vars

\* this step is a pass of idle: only idle drives pin_irq and only idle
\* dequeues
IdlePass ==
    \/ pin_irq' # pin_irq
    \/ msg_q # <<>> /\ msg_q' = Tail(msg_q)

\* C13: each pass of idle leaves the host-service line low exactly when, at
\* the top of the pass, the keyboard FIFO is not empty and the interrupt is
\* not masked; and it never drives the line low when the power state at the
\* top of the pass is Off.
C13_IrqLineFollowsFifo ==
    [][IdlePass =>
        /\ pin_irq' = "low" <=>
                (~irq_masked /\ register_state.ps2_kb_bytes # <<>>)
        /\ pin_irq' = "low" => state_dc_power_enabled # "Off"]_vars

\* the line is driven low for a powered host with a byte to read
C13_Witness ==
    /\ pin_irq = "low"
    /\ state_dc_power_enabled = "On"
    /\ ~irq_masked
    /\ register_state.ps2_kb_bytes # <<>>

C15_ResetButtonReasserts ==
    [][IdleHandles("ResetButtonShortPress") =>
        /\ (state_dc_power_enabled \in {"On", "Starting"} /\ ~halted')
                => (pin_sys_reset' = "low" /\ tasks'.exit_reset)
        /\ state_dc_power_enabled = "Off"
                => UNCHANGED <<register_state, spi, state_dc_power_enabled,
                               pin_sys_reset, pin_dc_on, irq_masked, led, tasks,
                               speaker_task_handle, speaker_hw, halted>>]_vars

\* the SpeakerDisable Messages still to come or to be handled: one for a
\* pending stop action, one for each SpeakerDisable in the queue
DisablesOutstanding ==
    (IF tasks.speaker_pwm_stop # "none" THEN 1 ELSE 0)
    + Cardinality({i \in 1..Len(msg_q) : msg_q[i].kind = "SpeakerDisable"})

\* idle handles the SpiRx of a speaker duration write of a tone while the
\* stop action of an earlier write is pending
RewritesDuration ==
    /\ IdleHandles("SpiRx")
    /\ spi.received # None
    /\ spi.received[1].crc_ok
    /\ spi.received[1].req.register = REG_SPEAKER_DURATION
    /\ flatten(spi.received[1].req.request_type) = "ShortWrite"
    /\ spi.received[1].req.length_or_data # 0
    /\ tasks.speaker_pwm_stop = "host"

Appended(kind) ==
    {i \in (Len(msg_q) + 1)..Len(msg_q') : msg_q'[i].kind = kind}

\* the queue has room for every Message one run of button_poll can enqueue
RoomForPoll == Len(msg_q) + 3 <= QueueCapacity

\* the press Message of a channel is appended only by the poll whose sample
\* is pressed sample number depth of a run, and then once; with room in the
\* queue that poll does append it
ChannelDebounced(kind, held, held_next, depth) ==
    /\ Appended(kind) # {} => held_next = depth /\ held = depth - 1
    /\ Cardinality(Appended(kind)) <= 1
    /\ held_next = depth /\ held = depth - 1 /\ RoomForPoll => Appended(kind) # {}

\* C17: on each of the three channels (power short, depth 2; power long,
\* depth 16; reset, depth 2) a run of fewer than depth pressed samples
\* produces no press event, the sample that makes the run depth long produces
\* exactly one, and no further one is produced while the button stays held.
C17_DebouncedPress ==
    [][/\ ChannelDebounced("PowerButtonShortPress", lines.power_held,
                           lines'.power_held, SHORT_DEPTH)
       /\ ChannelDebounced("PowerButtonLongPress", lines.power_held,
                           lines'.power_held, LONG_DEPTH)
       /\ ChannelDebounced("ResetButtonShortPress", lines.reset_held,
                           lines'.reset_held, SHORT_DEPTH)]_vars

\* the power button has been held for more than 16 polls, and the long press
\* Message of that press is the one Message in the queue
C17_Witness ==
    /\ lines.power_held = LONG_DEPTH + 1
    /\ msg_q = <<Msg("PowerButtonLongPress", lines.presses)>>
    /\ ~halted

(***************************************************************************)
(* The keyboard port: exti4_15_interrupt and idle's Ps2Data0 arm           *)
(***************************************************************************)
\* the interrupt samples the last bit of a word: the word add_bit returns
CompletedWord == BitsToWord(Append(kb_decoder, Head(lines.kb_tx)))
CompletesWord ==
    /\ Len(kb_decoder) = PS2_WORD_BITS - 1
    /\ kb_decoder' = <<>>
    /\ lines'.kb_tx # lines.kb_tx

\* idle handles the Message of a valid word: its data byte joins the FIFO
ValidWordAppends ==
    IdleHandles("Ps2Data0") /\ check_word(Head(msg_q).arg) # None
    => /\ register_state'.ps2_kb_bytes
            = Append(register_state.ps2_kb_bytes, check_word(Head(msg_q).arg)[1])
       /\ ~halted'

\* idle handles the Message of a bad word: the FIFO is left alone
BadWordAppendsNothing ==
    IdleHandles("Ps2Data0") /\ check_word(Head(msg_q).arg) = None
    => /\ register_state'.ps2_kb_bytes = register_state.ps2_kb_bytes
       /\ ~halted'

\* the interrupt that completes a bad word enqueues nothing and does not panic
BadWordNoEvent ==
    CompletesWord /\ check_word(CompletedWord) = None
    => msg_q' = msg_q /\ ~halted'

\* C18: on the keyboard port a valid 11-bit word (start bit 0, stop bit 1, odd
\* parity) appends exactly its data byte to the keyboard FIFO; a word with a
\* wrong parity, start or stop bit emits no event, appends nothing to the
\* FIFO and is never fatal.
C18_KeyboardFraming ==
    [][ValidWordAppends /\ BadWordAppendsNothing /\ BadWordNoEvent]_vars

(***************************************************************************)
(* The keyboard FIFO when it is full                                       *)
(***************************************************************************)
\* this step is the arrival of a valid keyboard byte at a full FIFO
KbByteAtFullFifo ==
    /\ budget'.kb_frames = budget.kb_frames - 1
    /\ Len(register_state.ps2_kb_bytes) = KB_FIFO_LEN

\* the word of the byte that arrives next
NextKbWord == BitsToWord(KbFrame(KB_FIFO_LEN + 2 - budget.kb_frames, TRUE))

\* C19: the keyboard FIFO never holds more than 16 bytes; a valid byte that
\* arrives while it holds 16 is dropped: the 16 stored bytes and their order
\* are unchanged and the firmware keeps running.
C19_FifoOverflowDropsNewest ==
    /\ [](Len(register_state.ps2_kb_bytes) <= KB_FIFO_LEN)
    /\ [][KbByteAtFullFifo =>
            /\ check_word(NextKbWord) # None
            /\ register_state' = register_state
            /\ OnPs2Data0(NextKbWord, IdleCtx) = IdleCtx
            /\ ~halted']_vars

\* seventeen bytes have arrived and none was read: the FIFO holds the first
\* sixteen in order
C19_Witness ==
    /\ budget.kb_frames = 0
    /\ budget.writes = 0
    /\ register_state.ps2_kb_bytes = [i \in 1..KB_FIFO_LEN |-> i]
    /\ ~halted

(***************************************************************************)
(* The reset line and the 5V rail while the host is off                    *)
(***************************************************************************)
\* this step is exit_reset running
ExitResetFires == tasks.exit_reset /\ ~tasks'.exit_reset

\* C20: whenever the power state is Off the reset line is low and the 5V rail
\* is off, and an exit_reset that fires after the host was powered off leaves
\* the reset line low.
C20_OffHoldsResetAndRail ==
    /\ [](state_dc_power_enabled = "Off"
           => pin_sys_reset = "low" /\ pin_dc_on = "low")
    /\ [][ExitResetFires /\ state_dc_power_enabled = "Off"
           => pin_sys_reset' = "low" /\ pin_dc_on' = "low"
              /\ state_dc_power_enabled' = "Off"]_vars

\* the host was on and a long press has just powered it off while an
\* exit_reset is still scheduled and free to fire
C20_Witness ==
    /\ handled = <<"PowerButtonLongPress", "On">>
    /\ state_dc_power_enabled = "Off"
    /\ tasks.exit_reset
    /\ msg_q = <<>>
    /\ ~halted

(***************************************************************************)
(* The bus transport and the power state                                   *)
(***************************************************************************)
\* SpiPeripheral is armed: start(4) was called and neither stop nor reset since
Armed(s) == s.mode # "Disabled"

\* C22: the transport is armed only by idle handling SpiEnable in Starting or
\* On; SpiEnable handled in Off is ignored; in every state with the power
\* state Off the transport is not armed.
C22_ArmedOnlyWhilePowered ==
    /\ [](state_dc_power_enabled = "Off" => ~Armed(spi))
    /\ [][/\ (~Armed(spi) /\ Armed(spi')
               => IdleHandles("SpiEnable") /\ state_dc_power_enabled # "Off")
          /\ (IdleHandles("SpiEnable") /\ state_dc_power_enabled = "Off"
               => spi' = spi /\ ~halted')
          /\ (IdleHandles("SpiEnable") /\ state_dc_power_enabled # "Off"
               => Armed(spi'))]_vars

\* chip select went low while the power state is Off, and idle has just
\* ignored the SpiEnable
C22_Witness ==
    /\ handled = <<"SpiEnable", "Off">>
    /\ state_dc_power_enabled = "Off"
    /\ lines.cs_low
    /\ ~Armed(spi)
    /\ ~halted

(***************************************************************************)
(* What a read of the keyboard FIFO removes                                *)
(***************************************************************************)
\* the read removes from the front of the FIFO only bytes its response holds
RemovesOnlyWhatItReturns(req) ==
    LET L == req.length_or_data
        fifo == register_state.ps2_kb_bytes
        r == ProcessCommand(req, register_state)
        removed == Len(fifo) - Len(r.state.ps2_kb_bytes)
    IN  /\ removed >= 0
        /\ r.state.ps2_kb_bytes = SubSeq(fifo, removed + 1, Len(fifo))
        /\ removed > 0 =>
            /\ r.rsp.result = "Ok"
            /\ removed <= L - 1
            /\ SubSeq(fifo, 1, removed) = SubSeq(r.rsp.data, 2, removed + 1)

\* C24: a Read of Ps2KbBuffer with requested length L removes from the FIFO
\* only bytes that are in the response it returns, so at most L-1 bytes: no
\* keyboard byte is lost by a read.
C24_ReadLosesNoByte ==
    \A req \in FifoReads :
        register_state.last_req # Some(req) => RemovesOnlyWhatItReturns(req)

(***************************************************************************)
(* Alternating Read and ReadAlt of the keyboard FIFO                       *)
(***************************************************************************)
\* the other request type of the pair the host alternates between
Alternate(t) == IF t = "Read" THEN "ReadAlt" ELSE "Read"

\* with A cached, its alternate B reads the FIFO afresh and is cached, and A
\* after B reads afresh again and leaves the FIFO empty
AlternationDrains(A, B) ==
    LET fifo == register_state.ps2_kb_bytes
        L == A.length_or_data
        first == ProcessCommand(B, register_state)
        second == ProcessCommand(A, first.state)
    IN  /\ first.rsp = new_ok_with_data(FifoReadData(fifo, L))
        /\ first.state.ps2_kb_bytes = DrainRest(fifo)
        /\ Len(fifo) > 0 => Len(first.state.ps2_kb_bytes) < Len(fifo)
        /\ first.state.last_req = Some(B)
        /\ second.rsp = new_ok_with_data(FifoReadData(first.state.ps2_kb_bytes, L))
        /\ second.state.ps2_kb_bytes = <<>>

\* C25: a Ps2KbBuffer request that differs from the cached last request only
\* in its request type (Read or ReadAlt) is not a retry: it drains the FIFO
\* afresh and answers with the new contents, so a host that alternates Read
\* and ReadAlt empties a FIFO that receives no new bytes.
C25_AlternateTypeIsFresh ==
    \A t \in {"Read", "ReadAlt"}, L \in {1, 2, SCRATCH_LEN} :
        register_state.last_req = Some(Request(t, REG_PS2_KB_BUFFER, L))
            => AlternationDrains(Request(t, REG_PS2_KB_BUFFER, L),
                                 Request(Alternate(t), REG_PS2_KB_BUFFER, L))

\* a Read is cached and the FIFO has since filled up
C25_Witness ==
    /\ register_state.last_req = Some(Request("Read", REG_PS2_KB_BUFFER, 2))
    /\ Len(register_state.ps2_kb_bytes) = KB_FIFO_LEN
    /\ rsp = Some(new_ok_with_data(<<1, 1>>))

(***************************************************************************)
(* Task spawns whose result is unwrapped                                   *)
(***************************************************************************)
\* the passes of idle that spawn a task and unwrap the result: power on
\* (speaker_init_tune, which spawns speaker_pwm_stop), power off
\* (led_power_blink) and a host request (the speaker update)
SpawningPass ==
    \/ IdleHandles("PowerButtonShortPress")
    \/ IdleHandles("PowerButtonLongPress")
    \/ IdleHandles("SpiRx")

\* C26: no sequence of button events, host requests and timer firings makes
\* an unwrapped task spawn fail: speaker_pwm_stop is never spawned while an
\* instance of it is pending, and neither is led_power_blink.
C26_NoSpawnFails == [][SpawningPass => ~halted']_vars

(***************************************************************************)
(* The interrupt mask and the power state                                  *)
(***************************************************************************)
\* C27: at every iteration boundary of the dispatch loop the host-service
\* interrupt is masked exactly when the power state is Off.
C27_MaskedExactlyWhenOff == irq_masked <=> (state_dc_power_enabled = "Off")

\* the host was on, unmasked, and a long press has just powered it off
C27_Witness ==
    /\ handled = <<"PowerButtonLongPress", "On">>
    /\ state_dc_power_enabled = "Off"
    /\ irq_masked
    /\ ~halted

(***************************************************************************)
(* Progress: the dispatch loop keeps running and the timer keeps firing    *)
(* the tasks that are scheduled.                                           *)
(***************************************************************************)
\* power on and release, then the reset button
LiveScenarioReset == Budget(2, 2, 0, 0, 0, FALSE)

\* power on and release, and the host starts one tone
LiveScenarioTone ==
    [Budget(2, 0, 1, 0, 0, FALSE) EXCEPT
        !.frames = {[req |-> Request("ShortWrite", REG_SPEAKER_DURATION, 5),
                     crc_ok |-> TRUE]}]

\* a keyboard frame and a UART byte while the host stays off
LiveScenarioInputs == Budget(0, 0, 0, 1, 1, FALSE)

InitLive ==
    \E b \in {LiveScenarioReset, LiveScenarioTone, LiveScenarioInputs} :
        InitSystem(b)

\* idle is the background loop: it runs whenever no task or interrupt does.
\* exit_reset and speaker_pwm_stop run when the monotonic timer reaches their
\* instant.
SpecLive ==
    /\ InitLive
    /\ [][Next]_vars
    /\ WF_vars(Idle)
    /\ WF_vars(ExitReset)
    /\ WF_vars(SpeakerPwmStop)

\* the reset line is asserted while the host is powered
ResetAssertedWhilePowered ==
    /\ state_dc_power_enabled # "Off"
    /\ pin_sys_reset = "low"
    /\ ~halted

\* C21: every assertion of the reset line made while the host is powered (at
\* power-on, or by a reset button press in On) is eventually followed by the
\* release of the line, unless the power state returns to Off first; the
\* timer keeps firing the scheduled tasks and the firmware keeps running.
C21_ResetEventuallyReleased ==
    ResetAssertedWhilePowered
        ~> (pin_sys_reset = "high" \/ state_dc_power_enabled = "Off" \/ halted)

\* the reset button has re-asserted the reset line of a running host
C21_Witness ==
    /\ handled = <<"ResetButtonShortPress", "On">>
    /\ state_dc_power_enabled = "On"
    /\ pin_sys_reset = "low"
    /\ tasks.exit_reset
    /\ ~halted

\* the host's tone is playing: its write was handled, the speaker is enabled
\* and the stop task is scheduled
HostTonePlaying ==
    /\ tasks.speaker_pwm_stop = "host"
    /\ speaker_hw
    /\ register_state.speaker.duration # 0
    /\ ~halted

\* what a Read of SpeakerDuration answers in this state
DurationRead ==
    ReadSpeakerDuration(Request("Read", REG_SPEAKER_DURATION, 1), register_state).rsp

\* C23: after a ShortWrite of a non-zero value to SpeakerDuration, with no
\* further duration write, the speaker is eventually disabled and a Read of
\* SpeakerDuration then returns 0; the dispatch loop and the timer keep
\* running.
C23_ToneEventuallyEnds ==
    HostTonePlaying
        ~> ((~speaker_hw /\ DurationRead = new_ok_with_data(<<0>>)) \/ halted)

\* the write of the tone has just been answered and the tone is playing
C23_Witness ==
    /\ HostTonePlaying
    /\ handled[1] = "SpiRx"
    /\ rsp = Some(new_without_data("Ok"))
    /\ DurationRead = new_ok_with_data(<<5>>)

====
